---- MODULE Spec2Model ----
(***************************************************************************)
(* The application layer of the WLAM sensor node (flora::wlam_sensor_app): *)
(* four independently scheduled quantities, one recurring wake-up timer,   *)
(* one aggregated uplink packet per non-empty wake-up, tagged with the     *)
(* radio's parameters.                                                     *)
(*                                                                         *)
(* Time is counted in ticks of the host's simulated clock.  The jitter     *)
(* fraction is the rational JitterNum / JitterDen.  A uniform(-j, j) draw  *)
(* is any whole tick within [-j, j].                                       *)
(***************************************************************************)
EXTENDS Integers, Sequences, FiniteSets

\* ------------------------------------------------------------------ bounds
MaxInterval    == 3  \* largest configured interval, in ticks
MaxJitterNum   == 3  \* largest jitter fraction is MaxJitterNum / JitterDen
MaxTime        == 5  \* the host delivers no event later than this
MaxWakeups     == 3  \* number of timer deliveries followed in one run

\* --------------------------------------------------------------- constants
SID_TEMPERATURE == 0
SID_NO2         == 1
SID_HUMIDITY    == 2
SID_COUNTER     == 3
SID_COUNT       == 4

SB_NONE        == 0
SB_TEMPERATURE == 1
SB_NO2         == 2
SB_HUMIDITY    == 4
SB_COUNTER     == 8

SIMTIME_MAX    == 1000000   \* the largest simtime_t; larger than any time reached
NAN            == -1        \* the not-a-number reading; every real reading is >= 0
SizeofSimtime  == 8
SizeofDouble   == 8
JitterDen      == 2

SensorIDs == 0 .. (SID_COUNT - 1)
SensorBits == {SB_TEMPERATURE, SB_NO2, SB_HUMIDITY, SB_COUNTER}

\* ------------------------------------------------------ sets of the inputs
PayloadBases    == {10}
CounterPayloads == {4}
RadioSettings   ==
    { [loRaTP |-> 10, loRaCF |-> 868, loRaSF |-> 7,  loRaBW |-> 125, loRaCR |-> 1],
      [loRaTP |-> 20, loRaCF |-> 867, loRaSF |-> 12, loRaBW |-> 250, loRaCR |-> 4] }
ZeroSettings    ==
      [loRaTP |-> 0, loRaCF |-> 0, loRaSF |-> 0, loRaBW |-> 0, loRaCR |-> 0]
InitialSettings ==
    { [loRaTP |-> 10, loRaCF |-> 868, loRaSF |-> 7,  loRaBW |-> 125, loRaCR |-> 1] }

\* each quantity is disabled (interval 0 or negative) or enabled
Intervals(i)    == IF i \in {SID_TEMPERATURE, SID_COUNTER}
                   THEN {0, MaxInterval - 1} ELSE {-1, MaxInterval}
JitterNums      == 0 .. MaxJitterNum
Enabled(iv)     == { i \in SensorIDs : iv[i] > 0 }
Configurations  ==
    { c \in [interval : { iv \in [SensorIDs -> -1 .. MaxInterval] :
                             \A i \in SensorIDs : iv[i] \in Intervals(i) },
              intervalJitterFraction : JitterNums,
              basePayloadBytes : PayloadBases,
              counterPayloadBytes : CounterPayloads,
              initialLoRa : InitialSettings] :
        \* the jitter is followed on up to two quantities at a time, and a jitter
        \* fraction of 1 or more on one quantity
        /\ c.intervalJitterFraction > 0 => Cardinality(Enabled(c.interval)) <= 2
        /\ c.intervalJitterFraction >= JitterDen
             => Cardinality(Enabled(c.interval)) <= 1 }
\* genTemperature, genHumidity, genNO2 at simTime() = t: a baseline plus a
\* periodic term (the Gaussian noise term is left at its mean, 0)
genTemperature(t) == 20 + (t % 2)
genHumidity(t)    == 50 + ((t + 1) % 2)
genNO2(t)         == 40 + (t % 3)

VARIABLES
    par,              \* the module's configuration parameters (read by par(...))
    radio,            \* the external radio submodule: {} or {its live parameters}
    phase,            \* "constructed", "stage0", "running", "finished", "error"
    now,              \* simTime()
    sensors,          \* SensorState sensors[SID_COUNT]
    jitterFrac,       \* numerator of the jitter fraction over JitterDen
    basePayloadBytes,
    initLoRa,         \* initTPdBm, initCFHz, initSF, initBWHZ, initCR
    loRaRadio,        \* TRUE iff the pointer to the radio is not null
    scheduler,        \* TRUE iff the pointer to the timer message is not null
    timer,            \* arrival times of the pending timer message: {} or {t}
    event,            \* the callback that made the last step
    fired,            \* quantities whose nextDue <= now in the last callback
    emits,            \* signals emitted by the last callback, in order
    sent,             \* packets sent on socketOut by the last callback, in order
    wakeups           \* number of wake-ups so far

vars == << par, radio, phase, now, sensors, jitterFrac, basePayloadBytes, initLoRa,
           loRaRadio, scheduler, timer, event, fired, emits, sent, wakeups >>

\* ----------------------------------------------------------------- helpers
Bits(n) == { b \in SensorBits : (n \div b) % 2 = 1 }

SumBits(S) == (IF SB_TEMPERATURE \in S THEN SB_TEMPERATURE ELSE 0)
            + (IF SB_NO2 \in S THEN SB_NO2 ELSE 0)
            + (IF SB_HUMIDITY \in S THEN SB_HUMIDITY ELSE 0)
            + (IF SB_COUNTER \in S THEN SB_COUNTER ELSE 0)

BitOr(a, b)  == SumBits(Bits(a) \cup Bits(b))
BitAnd(a, b) == SumBits(Bits(a) \cap Bits(b))

\* math::dBmW2mW on the transmit powers of RadioSettings: 10^(dBm/10)
dBmW2mW(dBm) == 10 ^ (dBm \div 10)

\* the whole ticks a uniform(-jitter, jitter) draw can take, jitter = interval * frac
JitterDraws(interval, frac) ==
    LET k == (interval * frac) \div JitterDen
    IN  IF interval * frac >= 0 THEN (0 - k) .. k ELSE {0}

DefaultSensor(i) ==
    [id |-> i, interval |-> 0, nextDue |-> SIMTIME_MAX, lastValue |-> NAN,
     counter |-> 0, isCounter |-> FALSE]

\* ---------------------------------------------------------------- startup
Init ==
    /\ par \in Configurations
    /\ radio \in {{}} \cup { {r} : r \in RadioSettings }
    /\ phase = "constructed"
    /\ now = 0
    /\ sensors = [i \in SensorIDs |-> DefaultSensor(i)]
    /\ jitterFrac = 0
    /\ basePayloadBytes = 0
    /\ initLoRa = ZeroSettings
    /\ loRaRadio = FALSE
    /\ scheduler = FALSE
    /\ timer = {}
    /\ event = "none"
    /\ fired = {}
    /\ emits = << >>
    /\ sent = << >>
    /\ wakeups = 0

\* initSensor that leaves a disabled quantity due at once
initSensor_DisabledDue(id, interval, isCounter, t, o) ==
    [id |-> id, interval |-> interval, isCounter |-> isCounter,
     lastValue |-> NAN, counter |-> 0,
     nextDue |-> IF interval > 0 THEN t + interval + o ELSE t]

\* initSensor that forgets the interval
initSensor_NoInterval(id, interval, isCounter, t, o) ==
    [id |-> id, interval |-> interval, isCounter |-> isCounter,
     lastValue |-> NAN, counter |-> 0,
     nextDue |-> IF interval > 0 THEN t + o ELSE SIMTIME_MAX]

\* wlam_sensor_app::initSensor at simTime() = t, with the jitter draw o
initSensor(id, interval, isCounter, t, o) ==
    [id |-> id, interval |-> interval, isCounter |-> isCounter,
     lastValue |-> NAN, counter |-> 0,
     nextDue |-> IF interval > 0 THEN t + interval + o ELSE SIMTIME_MAX]

\* earliestNextDue whose loop stops one quantity short
earliestNextDue_SkipsLast(ss) ==
    LET due == { ss[i].nextDue : i \in 0 .. (SID_COUNT - 2) } \cup {SIMTIME_MAX}
    IN  CHOOSE e \in due : \A d \in due : e <= d

\* wlam_sensor_app::earliestNextDue
earliestNextDue(ss) ==
    LET due == { ss[i].nextDue : i \in SensorIDs } \cup {SIMTIME_MAX}
    IN  CHOOSE e \in due : \A d \in due : e <= d

\* scheduleNext that arms the timer one tick after the earliest nextDue
scheduleNext_ArmsLate(ss, t) ==
    LET n == earliestNextDue(ss)
    IN  IF n < SIMTIME_MAX
        THEN IF n < t THEN [timer |-> {}, error |-> TRUE]
                      ELSE [timer |-> {n + 1}, error |-> FALSE]
        ELSE [timer |-> {}, error |-> FALSE]

\* scheduleNext that arms the timer for the current time
scheduleNext_ArmsNow(ss, t) ==
    LET n == earliestNextDue(ss)
    IN  IF n < SIMTIME_MAX
        THEN IF n < t THEN [timer |-> {}, error |-> TRUE]
                      ELSE [timer |-> {t}, error |-> FALSE]
        ELSE [timer |-> {}, error |-> FALSE]

\* scheduleNext that never arms the timer
scheduleNext_NeverArms(ss, t) ==
    [timer |-> {}, error |-> FALSE]

\* scheduleNext that arms the timer whatever earliestNextDue returns
scheduleNext_AlwaysArms(ss, t) ==
    LET n == earliestNextDue(ss)
    IN  IF n < t THEN [timer |-> {}, error |-> TRUE]
                 ELSE [timer |-> {n}, error |-> FALSE]

\* wlam_sensor_app::scheduleNext: the timer it leaves pending; scheduleAt
\* refuses an arrival time earlier than simTime() with a runtime error
scheduleNext(ss, t) ==
    LET n == earliestNextDue(ss)
    IN  IF n < SIMTIME_MAX
        THEN IF n < t THEN [timer |-> {}, error |-> TRUE]
                      ELSE [timer |-> {n}, error |-> FALSE]
        ELSE [timer |-> {}, error |-> FALSE]

\* initialize(0): read the parameters, locate the radio, set up the four
\* quantities at simTime() and allocate the timer message
InitializeStage0 ==
    /\ phase = "constructed"
    /\ \E o0 \in JitterDraws(par.interval[SID_TEMPERATURE], par.intervalJitterFraction),
          o1 \in JitterDraws(par.interval[SID_NO2], par.intervalJitterFraction),
          o2 \in JitterDraws(par.interval[SID_HUMIDITY], par.intervalJitterFraction),
          o3 \in JitterDraws(par.interval[SID_COUNTER], par.intervalJitterFraction) :
        LET o == << o0, o1, o2, o3 >>
        IN  sensors' = [i \in SensorIDs |->
              initSensor(i, par.interval[i], i = SID_COUNTER, now, o[i + 1])]
    /\ jitterFrac' = par.intervalJitterFraction
    /\ basePayloadBytes' = par.basePayloadBytes
    /\ initLoRa' = par.initialLoRa
    /\ loRaRadio' = (radio # {})
    /\ scheduler' = TRUE
    /\ phase' = "stage0"
    /\ event' = "initialize"
    /\ UNCHANGED << par, radio, now, timer, fired, emits, sent, wakeups >>

\* applyInitialLoRaParams that leaves the radio alone
applyInitialLoRaParams_NoWrite(found, live, init) == live

\* wlam_sensor_app::applyInitialLoRaParams: the radio's parameters afterwards
applyInitialLoRaParams(found, live, init) ==
    IF ~found THEN live ELSE { init }

\* initialize(INITSTAGE_APPLICATION_LAYER)
InitializeAppLayer ==
    /\ phase = "stage0"
    /\ radio' = applyInitialLoRaParams(loRaRadio, radio, initLoRa)
    /\ LET r == scheduleNext(sensors, now)
       IN  /\ timer' = r.timer
           /\ phase' = IF r.error THEN "error" ELSE "running"
    /\ event' = "initialize"
    /\ UNCHANGED << par, now, sensors, jitterFrac, basePayloadBytes, initLoRa,
                    loRaRadio, scheduler, fired, emits, sent, wakeups >>

\* attachLoRaTag that tags the packet with blank values when no radio was found
attachLoRaTag_TagsWithoutRadio(found, live) ==
    IF live = {}
    THEN { [spreadFactor |-> 0, bandwidth |-> 0, centerFrequency |-> 0,
            power |-> dBmW2mW(0), codeRendundance |-> 0] }
    ELSE LET r == CHOOSE x \in live : TRUE
         IN  { [spreadFactor |-> r.loRaSF, bandwidth |-> r.loRaBW,
                centerFrequency |-> r.loRaCF, power |-> dBmW2mW(r.loRaTP),
                codeRendundance |-> r.loRaCR] }

\* ------------------------------------------------------------- the wake-up
\* attachLoRaTag that tags the transmit power in dBm, unconverted
attachLoRaTag_PowerInDBm(found, live) ==
    IF ~found THEN {}
    ELSE LET r == CHOOSE x \in live : TRUE
         IN  { [spreadFactor |-> r.loRaSF, bandwidth |-> r.loRaBW,
                centerFrequency |-> r.loRaCF, power |-> r.loRaTP,
                codeRendundance |-> r.loRaCR] }

\* wlam_sensor_app::attachLoRaTag: the tags of the packet afterwards
attachLoRaTag(found, live) ==
    IF ~found THEN {}
    ELSE LET r == CHOOSE x \in live : TRUE
         IN  { [spreadFactor |-> r.loRaSF, bandwidth |-> r.loRaBW,
                centerFrequency |-> r.loRaCF, power |-> dBmW2mW(r.loRaTP),
                codeRendundance |-> r.loRaCR] }

\* a recomputation that doubles the jitter draw
recomputeNextDue_DoubleJitter(s, t, o) ==
    IF s.interval > 0 THEN t + s.interval + 2 * o ELSE SIMTIME_MAX

\* a recomputation relative to the old nextDue less one interval
recomputeNextDue_FromOld(s, t, o) ==
    IF s.interval > 0 THEN s.nextDue + o ELSE SIMTIME_MAX

\* the recomputation of nextDue that ends the body of the loop, for a quantity
\* due at t, with the jitter draw o
recomputeNextDue(s, t, o) ==
    IF s.interval > 0 THEN t + s.interval + o ELSE SIMTIME_MAX

\* case SID_TEMPERATURE that marks the temperature alone
caseTemperature_NoHumidityBit(s, a, t) ==
    [s |-> s,
     a |-> [a EXCEPT !.temperature = genTemperature(t),
                     !.humidity = genHumidity(t),
                     !.emits = a.emits \o << << "temperature", genTemperature(t) >>,
                                             << "humidity", genHumidity(t) >> >>,
                     !.bitmap = BitOr(a.bitmap, SB_TEMPERATURE)]]

\* case SID_TEMPERATURE of the switch on s.id, for a quantity s due at t; a is
\* the record of the locals of sampleAndSendIfDue
caseTemperature(s, a, t) ==
    [s |-> s,
     a |-> [a EXCEPT !.temperature = genTemperature(t),
                     !.humidity = genHumidity(t),
                     !.emits = a.emits \o << << "temperature", genTemperature(t) >>,
                                             << "humidity", genHumidity(t) >> >>,
                     !.bitmap = BitOr(BitOr(a.bitmap, SB_TEMPERATURE), SB_HUMIDITY)]]

\* case SID_NO2 that marks the reading with the temperature bit
caseNO2_TemperatureBit(s, a, t) ==
    [s |-> [s EXCEPT !.lastValue = genNO2(t)],
     a |-> [a EXCEPT !.no2 = genNO2(t),
                     !.emits = a.emits \o << << "no2", genNO2(t) >> >>,
                     !.bitmap = BitOr(a.bitmap, SB_TEMPERATURE)]]

\* case SID_NO2
caseNO2(s, a, t) ==
    [s |-> [s EXCEPT !.lastValue = genNO2(t)],
     a |-> [a EXCEPT !.no2 = genNO2(t),
                     !.emits = a.emits \o << << "no2", genNO2(t) >> >>,
                     !.bitmap = BitOr(a.bitmap, SB_NO2)]]

\* case SID_HUMIDITY that reports nothing
caseHumidity_NoReport(s, a, t) ==
    [s |-> [s EXCEPT !.lastValue = genHumidity(t)],
     a |-> [a EXCEPT !.humidity = genHumidity(t),
                     !.bitmap = BitOr(a.bitmap, SB_HUMIDITY)]]

\* case SID_HUMIDITY
caseHumidity(s, a, t) ==
    [s |-> [s EXCEPT !.lastValue = genHumidity(t)],
     a |-> [a EXCEPT !.humidity = genHumidity(t),
                     !.emits = a.emits \o << << "humidity", genHumidity(t) >> >>,
                     !.bitmap = BitOr(a.bitmap, SB_HUMIDITY)]]

\* case SID_COUNTER that sends the counter before incrementing it
caseCounter_PostIncrement(s, a, t) ==
    [s |-> [s EXCEPT !.counter = s.counter + 1],
     a |-> [a EXCEPT !.counterVal = s.counter,
                     !.emits = a.emits \o << << "counter", s.counter >> >>,
                     !.bitmap = BitOr(a.bitmap, SB_COUNTER)]]

\* case SID_COUNTER
caseCounter(s, a, t) ==
    [s |-> [s EXCEPT !.counter = s.counter + 1],
     a |-> [a EXCEPT !.counterVal = s.counter + 1,
                     !.emits = a.emits \o << << "counter", s.counter + 1 >> >>,
                     !.bitmap = BitOr(a.bitmap, SB_COUNTER)]]

\* the switch on s.id
sampleSensor(s, a, t) ==
    CASE s.id = SID_TEMPERATURE -> caseTemperature(s, a, t)
      [] s.id = SID_NO2         -> caseNO2(s, a, t)
      [] s.id = SID_HUMIDITY    -> caseHumidity(s, a, t)
      [] s.id = SID_COUNTER     -> caseCounter(s, a, t)
      [] OTHER                  -> [s |-> s, a |-> a]

\* a loop iteration in which a Temperature firing also reschedules Humidity
loopBody_TemperatureReschedulesHumidity(st, i, t, o) ==
    LET s == st.sensors[i]
    IN  IF s.nextDue <= t
        THEN LET r == sampleSensor(s, st.a, t)
                 h == st.sensors[SID_HUMIDITY]
             IN  [sensors |-> [st.sensors EXCEPT
                                 ![SID_HUMIDITY] =
                                     IF i = SID_TEMPERATURE
                                     THEN [h EXCEPT !.nextDue =
                                              recomputeNextDue(h, t, 0)]
                                     ELSE h,
                                 ![i] = [r.s EXCEPT !.nextDue =
                                            recomputeNextDue(r.s, t, o[i + 1])]],
                  a |-> r.a]
        ELSE st

\* one iteration of the loop over the quantities
loopBody(st, i, t, o) ==
    LET s == st.sensors[i]
    IN  IF s.nextDue <= t
        THEN LET r == sampleSensor(s, st.a, t)
             IN  [sensors |-> [st.sensors EXCEPT
                                 ![i] = [r.s EXCEPT !.nextDue =
                                            recomputeNextDue(r.s, t, o[i + 1])]],
                  a |-> r.a]
        ELSE st

\* a size accounting that forgets the bitmap byte
chunkLength_NoBitmapByte(bitmap, base, counterBytes) ==
    base + SizeofSimtime
    + (IF BitAnd(bitmap, SB_TEMPERATURE) # 0 THEN SizeofDouble ELSE 0)
    + (IF BitAnd(bitmap, SB_NO2) # 0 THEN SizeofDouble ELSE 0)
    + (IF BitAnd(bitmap, SB_HUMIDITY) # 0 THEN SizeofDouble ELSE 0)
    + (IF BitAnd(bitmap, SB_COUNTER) # 0 THEN counterBytes ELSE 0)

\* the size accounting: base + (bitmap byte) + timestamp + present fields
chunkLength(bitmap, base, counterBytes) ==
    base + 1 + SizeofSimtime
    + (IF BitAnd(bitmap, SB_TEMPERATURE) # 0 THEN SizeofDouble ELSE 0)
    + (IF BitAnd(bitmap, SB_NO2) # 0 THEN SizeofDouble ELSE 0)
    + (IF BitAnd(bitmap, SB_HUMIDITY) # 0 THEN SizeofDouble ELSE 0)
    + (IF BitAnd(bitmap, SB_COUNTER) # 0 THEN counterBytes ELSE 0)

\* sampleAndSendIfDue without the early return on an empty bitmap
sampleAndSendIfDue_AlwaysSends(ss, t, o, base, counterBytes, found, live) ==
    LET st0 == [sensors |-> ss,
                a |-> [bitmap |-> SB_NONE, temperature |-> NAN, humidity |-> NAN,
                       no2 |-> NAN, counterVal |-> 0, emits |-> << >>]]
        st1 == loopBody(st0, 0, t, o)
        st2 == loopBody(st1, 1, t, o)
        st3 == loopBody(st2, 2, t, o)
        st4 == loopBody(st3, 3, t, o)
        a   == st4.a
        pkt == [bitmap |-> a.bitmap, temperature |-> a.temperature, no2 |-> a.no2,
                humidity |-> a.humidity, counter |-> a.counterVal, createdAt |-> t,
                chunkLength |-> chunkLength(a.bitmap, base, counterBytes),
                tags |-> attachLoRaTag(found, live)]
    IN  [sensors |-> st4.sensors, sent |-> << pkt >>,
         emits |-> a.emits \o << << "LoRa_AppPacketSent", a.bitmap >> >>]

\* wlam_sensor_app::sampleAndSendIfDue at time t: the quantities, the packets
\* sent and the signals emitted
sampleAndSendIfDue(ss, t, o, base, counterBytes, found, live) ==
    LET st0 == [sensors |-> ss,
                a |-> [bitmap |-> SB_NONE, temperature |-> NAN, humidity |-> NAN,
                       no2 |-> NAN, counterVal |-> 0, emits |-> << >>]]
        st1 == loopBody(st0, 0, t, o)
        st2 == loopBody(st1, 1, t, o)
        st3 == loopBody(st2, 2, t, o)
        st4 == loopBody(st3, 3, t, o)
        a   == st4.a
        pkt == [bitmap |-> a.bitmap, temperature |-> a.temperature, no2 |-> a.no2,
                humidity |-> a.humidity, counter |-> a.counterVal, createdAt |-> t,
                chunkLength |-> chunkLength(a.bitmap, base, counterBytes),
                tags |-> attachLoRaTag(found, live)]
    IN  IF a.bitmap = SB_NONE
        THEN [sensors |-> st4.sensors, sent |-> << >>, emits |-> a.emits]
        ELSE [sensors |-> st4.sensors, sent |-> << pkt >>,
              emits |-> a.emits \o << << "LoRa_AppPacketSent", a.bitmap >> >>]

\* the draws a quantity takes when it is due at t
DrawsFor(s, frac, t) ==
    IF s.nextDue <= t /\ s.interval > 0 THEN JitterDraws(s.interval, frac) ELSE {0}

\* handleMessage(msg) for the pending timer message
HandleTimer ==
    /\ phase \in {"running", "finished"}
    /\ timer # {}
    /\ wakeups < MaxWakeups
    /\ \E t \in timer :
        /\ t <= MaxTime
        /\ now' = t
        /\ IF scheduler
           THEN \E o0 \in DrawsFor(sensors[0], jitterFrac, t),
                   o1 \in DrawsFor(sensors[1], jitterFrac, t),
                   o2 \in DrawsFor(sensors[2], jitterFrac, t),
                   o3 \in DrawsFor(sensors[3], jitterFrac, t) :
                LET r == sampleAndSendIfDue(sensors, t,
                            << o0, o1, o2, o3 >>, basePayloadBytes,
                            par.counterPayloadBytes, loRaRadio, radio)
                    n == scheduleNext(r.sensors, t)
                IN  /\ sensors' = r.sensors
                    /\ sent' = r.sent
                    /\ emits' = r.emits
                    /\ fired' = { i \in SensorIDs : sensors[i].nextDue <= t }
                    /\ timer' = n.timer
                    /\ phase' = IF n.error THEN "error" ELSE phase
                    /\ event' = "wakeup"
           ELSE /\ timer' = {}
                /\ event' = "discard"
                /\ fired' = {}
                /\ sent' = << >>
                /\ emits' = << >>
                /\ UNCHANGED << sensors, phase >>
    /\ wakeups' = wakeups + 1
    /\ UNCHANGED << par, radio, jitterFrac, basePayloadBytes, initLoRa, loRaRadio,
                    scheduler >>

\* a handling of any other message that also cancels the pending timer
HandleOther_CancelsTimer ==
    /\ phase = "running"
    /\ \E t \in now .. MaxTime, onSocketIn \in BOOLEAN :
        /\ \A d \in timer : t <= d
        /\ now' = t
        /\ event' = "discard"
    /\ timer' = {}
    /\ fired' = {}
    /\ sent' = << >>
    /\ emits' = << >>
    /\ UNCHANGED << par, radio, phase, sensors, jitterFrac, basePayloadBytes,
                    initLoRa, loRaRadio, scheduler, wakeups >>

\* handleMessage(msg) for any other message: a downlink packet on socketIn or
\* an unrecognized message, delivered no later than the pending timer
HandleOther ==
    /\ phase = "running"
    /\ \E t \in now .. MaxTime, onSocketIn \in BOOLEAN :
        /\ \A d \in timer : t <= d
        /\ now' = t
        /\ event' = "discard"
    /\ fired' = {}
    /\ sent' = << >>
    /\ emits' = << >>
    /\ UNCHANGED << par, radio, phase, sensors, jitterFrac, basePayloadBytes,
                    initLoRa, loRaRadio, scheduler, timer, wakeups >>

\* finish that forgets the pointer without cancelling the message
finish_NoCancel(sched, pending) ==
    [timer |-> pending, scheduler |-> FALSE]

\* wlam_sensor_app::finish: the timer message and the pointer to it afterwards
finish(sched, pending) ==
    IF sched THEN [timer |-> {}, scheduler |-> FALSE]
             ELSE [timer |-> pending, scheduler |-> sched]

\* wlam_sensor_app::finish, called by the host at the end of the run
Finish ==
    /\ phase = "running"
    /\ phase' = "finished"
    /\ timer' = finish(scheduler, timer).timer
    /\ scheduler' = finish(scheduler, timer).scheduler
    /\ event' = "finish"
    /\ fired' = {}
    /\ sent' = << >>
    /\ emits' = << >>
    /\ UNCHANGED << par, radio, now, sensors, jitterFrac, basePayloadBytes,
                    initLoRa, loRaRadio, wakeups >>

\* another component (the radio's own initialization, an ADR command) sets the
\* radio's live parameters
RadioChange ==
    /\ phase = "running"
    /\ radio # {}
    /\ \E r \in RadioSettings : radio' = { r } /\ radio' # radio
    /\ event' = "radio"
    /\ UNCHANGED << par, phase, now, sensors, jitterFrac, basePayloadBytes, initLoRa,
                    loRaRadio, scheduler, timer, fired, emits, sent, wakeups >>

\* sampleAndSendIfDue entered on its own at a time t of the caller's choosing,
\* whatever is due then
SampleAt ==
    /\ phase = "running"
    /\ wakeups < MaxWakeups
    /\ \E t \in now .. MaxTime :
        \E o0 \in DrawsFor(sensors[0], jitterFrac, t),
           o1 \in DrawsFor(sensors[1], jitterFrac, t),
           o2 \in DrawsFor(sensors[2], jitterFrac, t),
           o3 \in DrawsFor(sensors[3], jitterFrac, t) :
            LET r == sampleAndSendIfDue(sensors, t, << o0, o1, o2, o3 >>,
                        basePayloadBytes, par.counterPayloadBytes, loRaRadio, radio)
            IN  /\ now' = t
                /\ sensors' = r.sensors
                /\ sent' = r.sent
                /\ emits' = r.emits
                /\ fired' = { i \in SensorIDs : sensors[i].nextDue <= t }
                /\ event' = "wakeup"
    /\ wakeups' = wakeups + 1
    /\ UNCHANGED << par, radio, phase, jitterFrac, basePayloadBytes, initLoRa,
                    loRaRadio, scheduler, timer >>

Next ==
    \/ InitializeStage0
    \/ InitializeAppLayer
    \/ HandleTimer
    \/ HandleOther
    \/ Finish
    \/ RadioChange

Spec == Init /\ [][Next]_vars

\* the aggregation routine on its own: startup, then sampleAndSendIfDue entered
\* at any time
NextDirect ==
    \/ InitializeStage0
    \/ InitializeAppLayer
    \/ SampleAt

SpecDirect == Init /\ [][NextDirect]_vars

\* ------------------------------------------------------------ the claims
\* the presence bit a quantity sets when it fires
PresenceBit(i) ==
    CASE i = SID_TEMPERATURE -> SB_TEMPERATURE
      [] i = SID_NO2         -> SB_NO2
      [] i = SID_HUMIDITY    -> SB_HUMIDITY
      [] i = SID_COUNTER     -> SB_COUNTER

HasBit(pkt, b) == BitAnd(pkt.bitmap, b) # 0
Packets == { sent[k] : k \in 1 .. Len(sent) }
Disabled == { i \in SensorIDs : par.interval[i] <= 0 }
Woke == event = "wakeup"

\* C1 as stated: a quantity configured with interval <= 0 always has nextDue at
\* the disabled sentinel, and no packet sent has its presence bit set (Humidity
\* included, also while Temperature is enabled).
C1_DisabledNeverInRecord ==
    \A q \in Disabled :
        /\ sensors[q].nextDue = SIMTIME_MAX
        /\ \A pkt \in Packets : ~HasBit(pkt, PresenceBit(q))

\* C1 as amended: a quantity configured with interval <= 0 always has nextDue at
\* the disabled sentinel, and no packet sent has its presence bit set, except
\* that the humidity bit is set in the packets that carry the temperature bit.
C1_DisabledNeverFires ==
    \A q \in Disabled :
        /\ sensors[q].nextDue = SIMTIME_MAX
        /\ \A pkt \in Packets :
              HasBit(pkt, PresenceBit(q))
                  => q = SID_HUMIDITY /\ HasBit(pkt, SB_TEMPERATURE)

\* a wake-up sent a packet while NO2 and the counter are disabled, and Humidity,
\* disabled too, is in the packet next to the temperature
C1_Witness ==
    /\ Woke
    /\ Disabled = {SID_NO2, SID_HUMIDITY, SID_COUNTER}
    /\ \E pkt \in Packets : pkt.bitmap = SB_TEMPERATURE + SB_HUMIDITY

\* C2: whenever Temperature is due at a wake-up, the packet of that wake-up has
\* both the temperature and the humidity presence bits set, whether or not
\* Humidity is due itself.
C2_TemperatureCarriesHumidity ==
    (Woke /\ SID_TEMPERATURE \in fired)
        => /\ Len(sent) = 1
           /\ HasBit(sent[1], SB_TEMPERATURE)
           /\ HasBit(sent[1], SB_HUMIDITY)

\* Temperature fired at a wake-up at which the enabled Humidity was not due
C2_Witness ==
    /\ Woke
    /\ SID_TEMPERATURE \in fired
    /\ SID_HUMIDITY \notin fired
    /\ par.interval[SID_HUMIDITY] > 0
    /\ sensors[SID_HUMIDITY].nextDue > now
    /\ Len(sent) = 1

\* nd lies in [t + interval * (1 - frac), t + interval * (1 + frac)], the
\* fraction being num / JitterDen
InWindow(nd, t, interval, num) ==
    /\ JitterDen * (nd - t) >= interval * (JitterDen - num)
    /\ JitterDen * (nd - t) <= interval * (JitterDen + num)

\* C3: for a quantity with interval > 0, the nextDue computed at a firing at
\* time now, and the one computed at startup, lies in the closed window
\* [now + interval * (1 - jitterFraction), now + interval * (1 + jitterFraction)].
C3_NextDueInWindow ==
    \A i \in SensorIDs :
        (/\ par.interval[i] > 0
         /\ \/ Woke /\ i \in fired
            \/ phase = "stage0")
            => InWindow(sensors[i].nextDue, now, par.interval[i],
                        par.intervalJitterFraction)

\* a quantity fired at a time later than startup and drew a jitter other than 0
C3_Witness ==
    /\ Woke
    /\ now > 0
    /\ \E i \in fired :
          /\ par.interval[i] > 0
          /\ sensors[i].nextDue # now + par.interval[i]

\* a firing of quantity i in the step
Fires(i) == event' = "wakeup" /\ i \in fired' /\ par.interval[i] > 0

\* C4 as stated: for any non-negative jitterFraction, each firing of a quantity
\* with interval > 0 sets nextDue strictly greater than it was before the firing.
C4_NextDueIncreasesAnyJitter ==
    [][ \A i \in SensorIDs :
            Fires(i) => sensors'[i].nextDue > sensors[i].nextDue ]_vars

\* C4 as amended: for a jitterFraction in [0, 1), each firing of a quantity with
\* interval > 0 sets nextDue strictly greater than it was before the firing.
C4_NextDueIncreases ==
    [][ \A i \in SensorIDs :
            (Fires(i) /\ par.intervalJitterFraction < JitterDen)
                => sensors'[i].nextDue > sensors[i].nextDue ]_vars

\* a quantity fired for the second time at least, under a jitter fraction in
\* (0, 1), and drew a negative jitter
C4_Witness ==
    /\ Woke
    /\ wakeups >= 2
    /\ par.intervalJitterFraction > 0
    /\ par.intervalJitterFraction < JitterDen
    /\ \E i \in fired :
          /\ par.interval[i] > 0
          /\ sensors[i].nextDue < now + par.interval[i]

\* C5: the chunk length of a packet is basePayloadBytes + 1 + 8 + 8 for each of
\* the temperature, NO2 and humidity bits set + counterPayloadBytes if the
\* counter bit is set: with base 10, NO2 alone is 27 bytes, NO2 and Humidity
\* 35, the counter alone with counterPayloadBytes 4 is 23.
C5_ChunkLength ==
    \A pkt \in Packets :
        /\ pkt.chunkLength =
              par.basePayloadBytes + 1 + 8
              + 8 * Cardinality(Bits(pkt.bitmap)
                                \cap {SB_TEMPERATURE, SB_NO2, SB_HUMIDITY})
              + (IF SB_COUNTER \in Bits(pkt.bitmap)
                 THEN par.counterPayloadBytes ELSE 0)
        /\ (par.basePayloadBytes = 10 /\ pkt.bitmap = SB_NO2)
              => pkt.chunkLength = 27
        /\ (par.basePayloadBytes = 10 /\ pkt.bitmap = SB_NO2 + SB_HUMIDITY)
              => pkt.chunkLength = 35
        /\ (par.basePayloadBytes = 10 /\ par.counterPayloadBytes = 4
                /\ pkt.bitmap = SB_COUNTER)
              => pkt.chunkLength = 23

\* a packet with NO2 and Humidity alone was sent, 35 bytes long
C5_Witness ==
    \E pkt \in Packets :
        pkt.bitmap = SB_NO2 + SB_HUMIDITY /\ pkt.chunkLength = 35

\* C6: after teardown no timer is pending, and no quantity fires, no packet is
\* sent and no signal is emitted from then on.
C6_TeardownCancels ==
    [][ /\ phase' = "finished"
            => timer' = {} /\ fired' = {} /\ sent' = << >> /\ emits' = << >>
        /\ phase = "finished"
            => phase' = "finished" /\ sensors' = sensors ]_vars

\* teardown came after a wake-up, while a quantity had a finite nextDue, for
\* which the timer was pending
C6_Witness ==
    /\ phase = "finished"
    /\ wakeups > 0
    /\ \E i \in SensorIDs : sensors[i].nextDue <= MaxTime
    /\ timer = {}

\* C7: the counter starts at 0, a firing of the counter quantity increases it
\* by exactly 1 and puts the new value in the packet, and nothing else changes
\* it: the packet of the n-th firing carries n.
C7_CounterCounts ==
    /\ sensors[SID_COUNTER].counter = 0
    /\ [][ IF event' = "wakeup" /\ SID_COUNTER \in fired'
           THEN /\ sensors'[SID_COUNTER].counter = sensors[SID_COUNTER].counter + 1
                /\ Len(sent') = 1
                /\ HasBit(sent'[1], SB_COUNTER)
                /\ sent'[1].counter = sensors'[SID_COUNTER].counter
           ELSE sensors'[SID_COUNTER].counter = sensors[SID_COUNTER].counter ]_vars

\* the counter quantity fired for the third time and its packet carries 3
C7_Witness ==
    /\ Woke
    /\ SID_COUNTER \in fired
    /\ sensors[SID_COUNTER].counter = 3
    /\ Len(sent) = 1
    /\ sent[1].counter = 3

Finite == { i \in SensorIDs : sensors[i].nextDue # SIMTIME_MAX }

OwnCallbacks == {"initialize", "wakeup", "discard", "finish"}

TagOf(r) ==
    [spreadFactor |-> r.loRaSF, bandwidth |-> r.loRaBW,
     centerFrequency |-> r.loRaCF, codeRendundance |-> r.loRaCR,
     power |-> CASE r.loRaTP = 0 -> 1 [] r.loRaTP = 10 -> 10 [] r.loRaTP = 20 -> 100]

Started == phase \in {"stage0", "running"}

\* C11 as stated: between callbacks every nextDue is the disabled sentinel or
\* an instant not earlier than the current time, for any non-negative
\* jitterFraction, and the timer is never pending in the past or at the sentinel.
C11_NextDueNeverPastAnyJitter ==
    /\ Started => \A i \in SensorIDs :
                      sensors[i].nextDue = SIMTIME_MAX \/ sensors[i].nextDue >= now
    /\ \A t \in timer : t >= now /\ t # SIMTIME_MAX

\* C11 as amended: for a jitterFraction in [0, 1], between callbacks every
\* nextDue is the disabled sentinel or an instant not earlier than the current
\* time, the timer is never pending in the past or at the sentinel, and no
\* scheduling is refused.
C11_NextDueNeverPast ==
    par.intervalJitterFraction <= JitterDen =>
        /\ Started => \A i \in SensorIDs :
                          sensors[i].nextDue = SIMTIME_MAX \/ sensors[i].nextDue >= now
        /\ \A t \in timer : t >= now /\ t # SIMTIME_MAX
        /\ phase # "error"

\* under a jitter fraction of 1 a quantity fired and is due again at the very
\* time of the wake-up, where the timer is pending
C11_Witness ==
    /\ Woke
    /\ phase = "running"
    /\ par.intervalJitterFraction = JitterDen
    /\ \E i \in fired : sensors[i].nextDue = now
    /\ timer = { now }

\* C12: a wake-up at which no quantity has nextDue <= now sends no packet,
\* emits no signal and leaves the nextDue, lastValue and counter of every
\* quantity unchanged.
C12_EmptyWakeupIsSilent ==
    [][ (event' = "wakeup" /\ fired' = {})
            => /\ sent' = << >>
               /\ emits' = << >>
               /\ sensors' = sensors ]_vars

\* the routine ran after startup at a time at which nothing was due, while a
\* quantity was still to fire
C12_Witness ==
    /\ Woke
    /\ now > 0
    /\ fired = {}
    /\ Finite # {}
    /\ sent = << >>

\* the signal under which a quantity's readings are reported
SignalOf(i) ==
    CASE i = SID_TEMPERATURE -> "temperature"
      [] i = SID_NO2         -> "no2"
      [] i = SID_HUMIDITY    -> "humidity"
      [] i = SID_COUNTER     -> "counter"

Reports(key) == { k \in 1 .. Len(emits) : emits[k][1] = key }
One(b) == IF b THEN 1 ELSE 0

\* one LoRa_AppPacketSent report per packet sent, carrying the packet's bitmap
PacketReports ==
    /\ Cardinality(Reports("LoRa_AppPacketSent")) = Len(sent)
    /\ \A k \in Reports("LoRa_AppPacketSent") :
          \E pkt \in Packets : emits[k][2] = pkt.bitmap

\* C13 as stated: at a wake-up the number of reading reports under a quantity's
\* key is 1 if that quantity fired and 0 otherwise, and there is one
\* packets-sent report per packet sent, keyed by its bitmap.
C13_OneReportPerFiring ==
    Woke =>
        /\ \A i \in SensorIDs :
              Cardinality(Reports(SignalOf(i))) = One(i \in fired)
        /\ PacketReports

\* C13 as amended: at a wake-up the number of reading reports under the
\* temperature, NO2 and counter keys is 1 if that quantity fired and 0
\* otherwise; under the humidity key it is the number of the quantities
\* Temperature and Humidity that fired; and there is one packets-sent report
\* per packet sent, keyed by its bitmap.
C13_ReportsPerFiring ==
    Woke =>
        /\ \A i \in SensorIDs \ {SID_HUMIDITY} :
              Cardinality(Reports(SignalOf(i))) = One(i \in fired)
        /\ Cardinality(Reports("humidity")) =
              One(SID_TEMPERATURE \in fired) + One(SID_HUMIDITY \in fired)
        /\ PacketReports

\* Temperature and Humidity fired at the same wake-up: two humidity reports,
\* one packets-sent report
C13_Witness ==
    /\ Woke
    /\ {SID_TEMPERATURE, SID_HUMIDITY} \subseteq fired
    /\ Cardinality(Reports("humidity")) = 2
    /\ Cardinality(Reports("LoRa_AppPacketSent")) = 1

\* every non-empty wake-up has sent its packet, and the packet carries no tag
SendsUntagged ==
    (Woke /\ fired # {}) => (Len(sent) = 1 /\ \A pkt \in Packets : pkt.tags = {})

\* C14 as stated: when no radio was located at startup, every non-empty
\* wake-up still sends its packet with no radio tag attached, and no error
\* state is reached at startup or at any later wake-up.
C14_NoRadioNeverErrs ==
    radio = {} => (SendsUntagged /\ ~loRaRadio /\ phase # "error")

\* C14 as amended: when no radio was located at startup, every non-empty
\* wake-up still sends its packet with no radio tag attached, and, for a
\* jitter fraction of at most 1, no error state is reached at startup or at
\* any later wake-up.
C14_NoRadioIsDegradedMode ==
    radio = {} =>
        /\ SendsUntagged
        /\ ~loRaRadio
        /\ par.intervalJitterFraction <= JitterDen => phase # "error"

\* a second wake-up of a node without radio has sent an untagged packet
C14_Witness ==
    /\ radio = {}
    /\ phase = "running"
    /\ Woke
    /\ wakeups >= 2
    /\ Len(sent) = 1
    /\ sent[1].tags = {}

\* C15: if every quantity is configured with interval <= 0, the driver is Idle
\* from startup on: no timer is ever armed, no wake-up ever occurs, no packet
\* is ever sent, and no error state is reached.
C15_AllDisabledIsIdle ==
    Enabled(par.interval) = {} =>
        /\ timer = {}
        /\ wakeups = 0
        /\ event # "wakeup"
        /\ sent = << >>
        /\ emits = << >>
        /\ phase # "error"

\* a started node with every quantity disabled, still idle after time has passed
C15_Witness ==
    /\ Enabled(par.interval) = {}
    /\ phase = "running"
    /\ scheduler
    /\ now > 0
    /\ timer = {}

\* C16: handling any inbound message other than the module's own wake-up timer
\* discards it: every quantity's nextDue, lastValue and counter and the pending
\* timer are unchanged, no packet is sent and no report is emitted, wherever
\* between the wake-ups the message arrives.
C16_OtherMessagesDiscarded ==
    [][ event' = "discard" =>
            /\ sensors' = sensors
            /\ timer' = timer
            /\ scheduler' = scheduler
            /\ phase' = phase
            /\ sent' = << >>
            /\ emits' = << >> ]_vars

\* another message was handled between two wake-ups, the timer still pending
C16_Witness ==
    /\ event = "discard"
    /\ wakeups >= 1
    /\ wakeups < MaxWakeups
    /\ timer # {}
    /\ \E i \in SensorIDs : sensors[i].lastValue # NAN

\* the presence bits a wake-up owes: one per due quantity, and the humidity bit
\* when Temperature was due
DueBits ==
    { PresenceBit(i) : i \in fired }
        \cup (IF SID_TEMPERATURE \in fired THEN {SB_HUMIDITY} ELSE {})

\* C17: each wake-up sends at most one packet, and that packet's bitmap is
\* exactly the OR of the presence bits of the quantities due at that wake-up,
\* plus the humidity bit when Temperature was due; only NO2 due yields {NO2},
\* only Humidity yields {Humidity}, only the counter yields {Counter}.
C17_BitmapIsDueBits ==
    Woke =>
        /\ Len(sent) <= 1
        /\ \A pkt \in Packets :
              /\ pkt.bitmap = SumBits(DueBits)
              /\ fired = {SID_NO2} => pkt.bitmap = SB_NO2
              /\ fired = {SID_HUMIDITY} => pkt.bitmap = SB_HUMIDITY
              /\ fired = {SID_COUNTER} => pkt.bitmap = SB_COUNTER

\* only Humidity was due, with Temperature enabled: the packet carries the
\* humidity bit alone
C17_Witness ==
    /\ Woke
    /\ fired = {SID_HUMIDITY}
    /\ par.interval[SID_TEMPERATURE] > 0
    /\ Len(sent) = 1
    /\ sent[1].bitmap = SB_HUMIDITY

\* a run without teardown in which the host delivers every pending timer
NextLive ==
    \/ InitializeStage0
    \/ InitializeAppLayer
    \/ HandleTimer
    \/ HandleOther
    \/ RadioChange

\* the timer message is pending and within the horizon: the guard of HandleTimer
TimerPending ==
    /\ phase \in {"running", "finished"}
    /\ timer # {}
    /\ wakeups < MaxWakeups
    /\ \E t \in timer : t <= MaxTime

\* the host delivers the pending timer: HandleTimer is the only step that
\* counts a wake-up
TimerDelivered == TimerPending /\ wakeups' = wakeups + 1

SpecLive == Init /\ [][NextLive]_vars /\ WF_wakeups(TimerDelivered)

\* C18 as stated, its first half: with at least one quantity enabled and no
\* teardown, a started driver is never Idle (the timer is armed at startup and
\* re-armed after every wake-up).
C18_NeverIdle ==
    (Enabled(par.interval) # {} /\ phase \in {"running", "error"}) => timer # {}

\* C18 as amended: with at least one quantity enabled and no teardown, for a
\* jitter fraction of at most 1 the started driver is never Idle and reaches no
\* error state, and for a jitter fraction below 1 every enabled quantity whose
\* nextDue lies within the horizon fires again, unless the wake-up budget of the
\* run is used up first.
C18_KeepsFiring ==
    /\ [](par.intervalJitterFraction <= JitterDen => (C18_NeverIdle /\ phase # "error"))
    /\ \A i \in SensorIDs :
          (/\ par.intervalJitterFraction < JitterDen
           /\ phase = "running"
           /\ par.interval[i] > 0
           /\ sensors[i].nextDue <= MaxTime)
             ~> ((Woke /\ i \in fired) \/ wakeups = MaxWakeups)

\* the counter quantity fired for the second time under a jitter fraction
\* strictly between 0 and 1, and the timer is armed again
C18_Witness ==
    /\ par.intervalJitterFraction > 0
    /\ par.intervalJitterFraction < JitterDen
    /\ phase = "running"
    /\ Woke
    /\ SID_COUNTER \in fired
    /\ sensors[SID_COUNTER].counter >= 2
    /\ timer # {}

\* C19: a wake-up changes the nextDue, lastValue and counter only of quantities
\* whose own nextDue <= now; in particular a Temperature firing that also
\* samples Humidity leaves Humidity's nextDue unchanged when Humidity itself
\* is not due.
C19_OnlyDueQuantitiesChange ==
    [][ event' = "wakeup" =>
            /\ \A i \in SensorIDs :
                  sensors[i].nextDue > now' => sensors'[i] = sensors[i]
            /\ (sensors[SID_TEMPERATURE].nextDue <= now'
                    /\ sensors[SID_HUMIDITY].nextDue > now')
                  => sensors'[SID_HUMIDITY].nextDue = sensors[SID_HUMIDITY].nextDue ]_vars

\* without jitter, Temperature has fired once on its own and Humidity now fires
\* alone, on its own schedule
C19_Witness ==
    /\ par.intervalJitterFraction = 0
    /\ Woke
    /\ fired = {SID_HUMIDITY}
    /\ sensors[SID_TEMPERATURE].nextDue = 2 * par.interval[SID_TEMPERATURE]
    /\ now = par.interval[SID_HUMIDITY]
    /\ sensors[SID_HUMIDITY].nextDue = 2 * par.interval[SID_HUMIDITY]

\* C20: every delivery of the module's own wake-up timer finds at least one
\* quantity due and sends exactly one packet; a wake-up with nothing due is
\* unreachable through the driver's own timer.
C20_TimerWakeupSendsOnePacket ==
    Woke =>
        /\ fired # {}
        /\ Len(sent) = 1
        /\ \A pkt \in Packets : pkt.bitmap # SB_NONE /\ pkt.createdAt = now

\* the last wake-up of a jittered run, after other wake-ups, has sent its packet
C20_Witness ==
    /\ par.intervalJitterFraction > 0
    /\ Woke
    /\ wakeups = MaxWakeups
    /\ Cardinality(fired) = 1
    /\ Len(sent) = 1
    /\ sent[1].createdAt = now

\* C21: no quantity ever fires late: at every wake-up, each quantity that fires
\* (its nextDue is at or before the time of the wake-up) has nextDue exactly
\* equal to that time, never strictly less.
C21_NeverFiresLate ==
    [][ event' = "wakeup" =>
            \A i \in SensorIDs :
                sensors[i].nextDue <= now' => sensors[i].nextDue = now' ]_vars

\* under jitter, two quantities have fired together at a later wake-up
C21_Witness ==
    /\ par.intervalJitterFraction > 0
    /\ phase = "running"
    /\ Woke
    /\ wakeups >= 2
    /\ Cardinality(fired) = 2
    /\ \A i \in fired : sensors[i].nextDue >= now
====
